---- MODULE Spec2Model ----
(***************************************************************************)
(* A model of Chapter8/LearningAlgorithmsTemporal.py: the echo state       *)
(* network (reservoir computing) of TemporalClassificationAlgorithms, its  *)
(* prediction loop, its training loop, the parameter grid and the grid     *)
(* search around it.                                                       *)
(*                                                                         *)
(* Numbers.  The code computes in floating point.  The model computes in   *)
(* fixed point: an integer v stands for the number v / Unit.  Products and *)
(* quotients are rounded down to the next multiple of 1/Unit and tanh and  *)
(* arctanh are tabulated at that resolution.  A table (DataFrame) is the   *)
(* sequence of its rows, a row the sequence of its column values; row i of *)
(* the code (0-based, iloc[i]) is element i + 1 of the sequence.  An       *)
(* optional table (a table or None) is a sequence of at most one table.    *)
(*                                                                         *)
(* Calls.  Each function of the code that loops is modelled by its         *)
(* activation frame, a record of its arguments and locals named as in the  *)
(* code and a field pc for its position:                                   *)
(*   pr    predict_values_echo_state_network                               *)
(*   rc    reservoir_computing                                             *)
(*   gs    gridsearch_reservoir_computing / gridsearch_time_series         *)
(*   comb  generate_parameter_combinations                                 *)
(*   fc    create_numerical_multiple_dataset, normalize, denormalize,      *)
(*         initialize_echo_state_network                                   *)
(*   ev    Evaluator.evaluator_internal of Chapter8/dynsys/Evaluator.py    *)
(***************************************************************************)
EXTENDS Integers, Sequences, FiniteSets, TLC

VARIABLES
    env,    \* what the installed libraries do where the code leaves it open
    sc,     \* the scenario: the arguments the caller of a specification chose
    comb,   \* frame of generate_parameter_combinations
    gs,     \* frame of the grid search
    rc,     \* frame of reservoir_computing
    pr,     \* frame of predict_values_echo_state_network
    hist,   \* the prediction calls that ended, oldest first
    fc,     \* frame of a call of a function without a loop
    ev      \* frame of Evaluator.evaluator_internal

vars == <<env, sc, comb, gs, rc, pr, hist, fc, ev>>

----------------------------------------------------------------------------
(* Bounds of the model *)

\* most rows of a table handed to the prediction function
MaxRows == 3

\* longest parameter list and longest list of candidate values handed to
\* generate_parameter_combinations
MaxParams == 3
MaxVals == 2

\* most rows of a training table handed to a grid search
MaxGridRows == 16

\* most rows of a training table of reservoir_computing beyond the washout
\* period, and most rows of its test table
MaxTrainExtra == 2
MaxTestRows == 2

----------------------------------------------------------------------------
(* Fixed-point numbers *)

\* the number 1 (the literal 1 of "(1 - a)" and of the bias input)
Unit == 20

Abs(v) == IF v < 0 THEN -v ELSE v

RECURSIVE SumSeq(_)
SumSeq(s) == IF s = <<>> THEN 0 ELSE Head(s) + SumSeq(Tail(s))

\* round(Unit * tanh(k / Unit)) for k = 1 .. 43; from 44 on it is Unit
TanhTab ==
    << 1, 2, 3, 4, 5, 6, 7, 8, 8, 9, 10, 11, 11, 12, 13, 13, 14, 14, 15, 15,
       16, 16, 16, 17, 17, 17, 17, 18, 18, 18, 18, 18, 19, 19, 19, 19, 19, 19,
       19, 19, 19, 19, 19 >>

\* np.tanh on one number
Tanh(v) ==
    LET k == Abs(v)
        r == IF k = 0 THEN 0 ELSE IF k > Len(TanhTab) THEN Unit ELSE TanhTab[k]
    IN  IF v < 0 THEN -r ELSE r

\* round(Unit * arctanh(k / Unit)) for k = 1 .. 19
ArcTanhTab ==
    << 1, 2, 3, 4, 5, 6, 7, 8, 10, 11, 12, 14, 16, 17, 19, 22, 25, 29, 37 >>

\* np.arctanh on one number of the open interval (-1, 1)
ArcTanh(v) ==
    LET k == Abs(v)
        r == IF k = 0 THEN 0 ELSE ArcTanhTab[k]
    IN  IF v < 0 THEN -r ELSE r

\* one row of np.dot(M, v)
DotRow(row, v) == SumSeq([j \in 1..Len(row) |-> row[j] * v[j]]) \div Unit

\* np.dot(M, v) for a matrix (sequence of rows) and a vector
Dot(M, v) == [i \in 1..Len(M) |-> DotRow(M[i], v)]

\* np.zeros(n) / np.array([0] * n)
Zeros(n) == [i \in 1..n |-> 0]

\* an optional table
None == <<>>
Some(tbl) == <<tbl>>

\* tbl.iloc[i, :].values, i counted from 0
Row(tbl, i) == tbl[i + 1]

----------------------------------------------------------------------------
(* initialize_echo_state_network *)

\* One draw of np.random.rand(..) - 0.5 for entry (i, j): the seed stands for
\* the state of the random generator.  The draws are never 0.
Rand(seed, i, j) ==
    LET h == (seed * 7 + i * 5 + j * 3) % 18
    IN  IF h < 9 THEN h + 1 ELSE 8 - h

\* max(abs(linalg.eig(W)[0])): the draws of W are upper triangular, so the
\* eigenvalues are the diagonal entries
SpectralRadius(W) ==
    CHOOSE m \in {Abs(W[i][i]) : i \in 1..Len(W)} :
        \A i \in 1..Len(W) : Abs(W[i][i]) <= m

\* a variant that rescales W to the spectral radius 1
initialize_echo_state_network_UnitRadius(seed, inputs, outputs, reservoir) ==
    LET Win   == [i \in 1..reservoir |-> [j \in 1..(1 + inputs) |-> Rand(seed, i, j)]]
        W0    == [i \in 1..reservoir |->
                     [j \in 1..reservoir |-> IF j < i THEN 0 ELSE Rand(seed + 1, i, j)]]
        Wback == [i \in 1..reservoir |-> [j \in 1..outputs |-> Rand(seed + 2, i, j)]]
        rhoW  == SpectralRadius(W0)
        scale == (Unit * Unit) \div rhoW
        W     == [i \in 1..reservoir |->
                     [j \in 1..reservoir |-> (W0[i][j] * scale) \div Unit]]
    IN  [Win |-> Win, W |-> W, Wback |-> Wback]

initialize_echo_state_network(seed, inputs, outputs, reservoir) ==
    LET Win   == [i \in 1..reservoir |-> [j \in 1..(1 + inputs) |-> Rand(seed, i, j)]]
        W0    == [i \in 1..reservoir |->
                     [j \in 1..reservoir |-> IF j < i THEN 0 ELSE Rand(seed + 1, i, j)]]
        Wback == [i \in 1..reservoir |-> [j \in 1..outputs |-> Rand(seed + 2, i, j)]]
        rhoW  == SpectralRadius(W0)
        scale == (((5 * Unit) \div 4) * Unit) \div rhoW
        W     == [i \in 1..reservoir |->
                     [j \in 1..reservoir |-> (W0[i][j] * scale) \div Unit]]
    IN  [Win |-> Win, W |-> W, Wback |-> Wback]

----------------------------------------------------------------------------
(* predict_values_echo_state_network *)

\* the frame of a function that is not running
Idle == [pc |-> "idle"]

\* The frame on entry: the arguments, x = np.zeros((reservoir_size, 1)), Y = [].
\* y has no value before the first pass through the loop.  fb records the
\* y_prev of every pass, in order.
\* a variant that starts from the reservoir state the training pass left
PredictFrame_StaleState(Win, W, Wback, Wout, a, reservoir_size, X, y_true, cols, per_time_step) ==
    [pc |-> "loop", Win |-> Win, W |-> W, Wback |-> Wback, Wout |-> Wout, a |-> a,
     reservoir_size |-> reservoir_size, X |-> X, y_true |-> y_true, cols |-> cols,
     per_time_step |-> per_time_step,
     t |-> 0, x |-> rc.x, y |-> <<>>, Y |-> <<>>, fb |-> <<>>,
     ret |-> <<>>]

\* a variant that rescales W again on entry
PredictFrame_RescalesW(Win, W, Wback, Wout, a, reservoir_size, X, y_true, cols, per_time_step) ==
    [pc |-> "loop", Win |-> Win,
     W |-> [i \in 1..Len(W) |-> [j \in 1..Len(W[i]) |-> (W[i][j] * 25) \div Unit]],
     Wback |-> Wback, Wout |-> Wout, a |-> a,
     reservoir_size |-> reservoir_size, X |-> X, y_true |-> y_true, cols |-> cols,
     per_time_step |-> per_time_step,
     t |-> 0, x |-> Zeros(reservoir_size), y |-> <<>>, Y |-> <<>>, fb |-> <<>>,
     ret |-> <<>>]

PredictFrame(Win, W, Wback, Wout, a, reservoir_size, X, y_true, cols, per_time_step) ==
    [pc |-> "loop", Win |-> Win, W |-> W, Wback |-> Wback, Wout |-> Wout, a |-> a,
     reservoir_size |-> reservoir_size, X |-> X, y_true |-> y_true, cols |-> cols,
     per_time_step |-> per_time_step,
     t |-> 0, x |-> Zeros(reservoir_size), y |-> <<>>, Y |-> <<>>, fb |-> <<>>,
     ret |-> <<>>]

\* The choice of y_prev in pass f.t of the loop: <<y_prev>>, or <<>> when the
\* choice raises (y_true is None, or has no row t - 1).
PredictFeedback_CurrentRow(f) ==
    IF f.t > 0
    THEN IF f.per_time_step
         THEN IF f.y_true = None \/ f.t >= Len(f.y_true[1])
              THEN <<>>
              ELSE <<Row(f.y_true[1], f.t)>>
         ELSE <<f.y>>
    ELSE <<Zeros(Len(f.cols))>>

PredictFeedback_TrueWhenGiven(f) ==
    IF f.t > 0
    THEN IF f.per_time_step \/ (f.y_true # None /\ f.t - 1 < Len(f.y_true[1]))
         THEN IF f.y_true = None \/ f.t - 1 >= Len(f.y_true[1])
              THEN <<>>
              ELSE <<Row(f.y_true[1], f.t - 1)>>
         ELSE <<f.y>>
    ELSE <<Zeros(Len(f.cols))>>

PredictFeedback(f) ==
    IF f.t > 0
    THEN IF f.per_time_step
         THEN IF f.y_true = None \/ f.t - 1 >= Len(f.y_true[1])
              THEN <<>>
              ELSE <<Row(f.y_true[1], f.t - 1)>>
         ELSE <<f.y>>
    ELSE <<Zeros(Len(f.cols))>>

\* a variant of the update of the prediction that leaves the feedback term out
PredictActivation_NoFeedback(f, u, y_prev) ==
    LET d1 == Dot(f.Win, <<Unit>> \o u)
        d2 == Dot(f.W, f.x)
    IN  [i \in 1..Len(f.x) |->
            ((Unit - f.a) * f.x[i]) \div Unit
            + (f.a * Tanh(d1[i] + d2[i])) \div Unit]

\* x = (1 - a) * x + a * tanh(Win [1; u] + W x + Wback y_prev), in the loop of
\* the prediction
PredictActivation(f, u, y_prev) ==
    LET d1 == Dot(f.Win, <<Unit>> \o u)
        d2 == Dot(f.W, f.x)
        d3 == Dot(f.Wback, y_prev)
    IN  [i \in 1..Len(f.x) |->
            ((Unit - f.a) * f.x[i]) \div Unit
            + (f.a * Tanh(d1[i] + d2[i] + d3[i])) \div Unit]

\* y = tanh(Wout [1; u; x])
PredictOutput(Wout, u, x) ==
    [k \in 1..Len(Wout) |-> Tanh(DotRow(Wout[k], <<Unit>> \o u \o x))]

\* y_result.idxmax(axis=1) on one row: the first column holding the maximum
IdxMax(cols, row) ==
    LET k == CHOOSE k \in 1..Len(row) :
                 /\ \A j \in 1..Len(row) : row[j] <= row[k]
                 /\ \A j \in 1..(k - 1) : row[j] < row[k]
    IN  cols[k]

\* One pass through the loop "for t in range(0, len(X.index))".
PredictStep ==
    /\ pr.pc = "loop"
    /\ pr.t < Len(pr.X)
    /\ LET fbk == PredictFeedback(pr)
       IN  IF fbk = <<>>
           THEN pr' = [pr EXCEPT !.pc = "error"]
           ELSE LET u  == Row(pr.X, pr.t)
                    x2 == PredictActivation(pr, u, fbk[1])
                    y2 == PredictOutput(pr.Wout, u, x2)
                IN  pr' = [pr EXCEPT !.x = x2, !.y = y2, !.Y = Append(@, y2),
                                     !.fb = Append(@, fbk[1]), !.t = @ + 1]
    /\ UNCHANGED <<env, sc, comb, gs, rc, hist, fc, ev>>

\* a variant of the return that leaves the last pass out of the table
PredictReturn_DropsLastRow ==
    /\ pr.pc = "loop"
    /\ pr.t = Len(pr.X)
    /\ LET kept == SubSeq(pr.Y, 1, Len(pr.Y) - 1)
       IN  pr' = [pr EXCEPT !.pc = "returned",
                            !.ret = <<[i \in 1..Len(kept) |-> IdxMax(pr.cols, kept[i])],
                                      kept>>]
    /\ UNCHANGED <<env, sc, comb, gs, rc, hist, fc, ev>>

\* After the loop: y_result = DataFrame(Y, columns=cols, index=X.index) and
\* return y_result.idxmax(axis=1), y_result.  The constructor raises when a
\* row of Y has another number of entries than cols has names.  idxmax on a
\* frame without rows returns an empty column or raises, depending on the
\* installed pandas.
PredictReturn ==
    /\ pr.pc = "loop"
    /\ pr.t = Len(pr.X)
    /\ IF \/ \E i \in 1..Len(pr.Y) : Len(pr.Y[i]) # Len(pr.cols)
          \/ pr.Y = <<>> /\ env.empty_idxmax_raises
       THEN pr' = [pr EXCEPT !.pc = "error"]
       ELSE pr' = [pr EXCEPT !.pc = "returned",
                             !.ret = <<[i \in 1..Len(pr.Y) |-> IdxMax(pr.cols, pr.Y[i])],
                                       pr.Y>>]
    /\ UNCHANGED <<env, sc, comb, gs, rc, hist, fc, ev>>

----------------------------------------------------------------------------
(* Two prediction calls in a row on the same network and the same X *)

\* the values of a normalised input column (0 and 1)
XVals == {0, Unit}

\* the values of a normalised target column (-0.9 and 0.9)
YVals == {-18, 18}

\* the seeds of the random generator
Seeds == {1, 2}

\* the tables of n rows and width columns over vals
Tables(n, width, vals) == [1..n -> [1..width -> vals]]

\* the names of the target columns
ColNames == <<"c1", "c2">>

\* the names of the input columns
FeatureNames == <<"x1", "x2">>

\* a drawn Wout, as a fit may produce it
WoutDraw(seed, outputs, width) ==
    [k \in 1..outputs |-> [j \in 1..width |-> 2 * Rand(seed + 3, k, j)]]

\* the arguments of the two calls: a drawn network with one input, one
\* target column and one reservoir node, a = 0.8
PredictScenario(seed, X, yA, yB, pts) ==
    LET net == initialize_echo_state_network(seed, 1, 1, 1)
    IN  [Win |-> net.Win, W |-> net.W, Wback |-> net.Wback,
         Wout |-> WoutDraw(seed, 1, 3), a |-> 16, reservoir_size |-> 1,
         X |-> X, cols |-> SubSeq(ColNames, 1, 1), per_time_step |-> pts,
         y_trues |-> <<yA, yB>>]

\* the optional tables of n rows of one target column
OptTables(n) == {None} \cup {Some(tb) : tb \in Tables(n, 1, YVals)}

\* The libraries the code runs on: whether idxmax of pandas rejects a table
\* without rows, and whether linalg.pinv of scipy rejects a matrix without
\* rows (the releases that compute it from the singular values and take
\* their maximum do, the ones that solve a least-squares problem return the
\* empty pseudo-inverse).
Envs == [empty_idxmax_raises : BOOLEAN, empty_pinv_raises : BOOLEAN]

InitPredict ==
    /\ fc = Idle /\ ev = Idle
    /\ env \in Envs
    /\ \E seed \in Seeds, n \in 0..MaxRows, pts \in BOOLEAN :
           \E X \in Tables(n, 1, XVals), yA \in OptTables(n), yB \in OptTables(n) :
               sc = PredictScenario(seed, X, yA, yB, pts)
    /\ comb = Idle /\ gs = Idle /\ rc = Idle /\ pr = Idle
    /\ hist = <<>>

\* the caller starts the next call
DriverCall ==
    /\ pr.pc = "idle"
    /\ Len(hist) < Len(sc.y_trues)
    /\ pr' = PredictFrame(sc.Win, sc.W, sc.Wback, sc.Wout, sc.a, sc.reservoir_size,
                          sc.X, sc.y_trues[Len(hist) + 1], sc.cols, sc.per_time_step)
    /\ UNCHANGED <<env, sc, comb, gs, rc, hist, fc, ev>>

\* the call ended (it returned or raised): the caller keeps what it left
DriverCollect ==
    /\ pr.pc \in {"returned", "error"}
    /\ hist' = Append(hist, pr)
    /\ pr' = Idle
    /\ UNCHANGED <<env, sc, comb, gs, rc, fc, ev>>

NextPredict == DriverCall \/ PredictStep \/ PredictReturn \/ DriverCollect

SpecPredict == InitPredict /\ [][NextPredict]_vars

\* the prediction calls so far: the ended ones and the running one
Runs == hist \o (IF pr.pc = "idle" THEN <<>> ELSE <<pr>>)

Min(p, q) == IF p <= q THEN p ELSE q

\* rows 0 .. m-1 of two optional tables exist and are equal
AgreeRows(o1, o2, m) ==
    \A r \in 1..m :
        /\ o1 # None /\ o2 # None
        /\ r <= Len(o1[1]) /\ r <= Len(o2[1])
        /\ o1[1][r] = o2[1][r]

\* C1: with per_time_step=True, two calls whose y_true agree on rows 0..t-1
\* give the same outputs for the steps 0..t, whatever the later rows hold.
C1_TeacherForcedPrefix ==
    \A i \in DOMAIN Runs : \A j \in DOMAIN Runs :
        \A k \in 1..Min(Len(Runs[i].Y), Len(Runs[j].Y)) :
            (Runs[i].per_time_step /\ AgreeRows(Runs[i].y_true, Runs[j].y_true, k - 1))
                => Runs[i].Y[k] = Runs[j].Y[k]

\* two teacher-forced calls returned whose y_true differ first in row 0 and
\* whose outputs are equal at step 0 and differ at step 1
C1_Witness ==
    /\ Len(hist) = 2
    /\ sc.per_time_step
    /\ hist[1].pc = "returned" /\ hist[2].pc = "returned"
    /\ Len(hist[1].Y) >= 2
    /\ hist[1].y_true[1][1] # hist[2].y_true[1][1]
    /\ hist[1].Y[1] = hist[2].Y[1]
    /\ hist[1].Y[2] # hist[2].Y[2]

\* C2: with per_time_step=False the feedback is the zero vector at step 0
\* and the call's own output of step t-1 at step t > 0, and two calls that
\* differ only in y_true (None included) give the same outputs and end alike.
C2_FreeRunning ==
    \A i \in DOMAIN Runs :
        ~Runs[i].per_time_step =>
            /\ \A k \in 1..Len(Runs[i].fb) :
                   Runs[i].fb[k] = IF k = 1 THEN Zeros(Len(Runs[i].cols))
                                            ELSE Runs[i].Y[k - 1]
            /\ \A j \in DOMAIN Runs :
                   /\ \A k \in 1..Min(Len(Runs[i].Y), Len(Runs[j].Y)) :
                          Runs[i].Y[k] = Runs[j].Y[k]
                   /\ (i \in DOMAIN hist /\ j \in DOMAIN hist) =>
                          /\ Runs[i].pc = Runs[j].pc
                          /\ Runs[i].ret = Runs[j].ret

\* a free-running call without y_true and one with y_true both returned
\* three rows, and the given y_true is not what the network put out
C2_Witness ==
    /\ Len(hist) = 2
    /\ ~sc.per_time_step
    /\ hist[1].y_true = None /\ hist[2].y_true # None
    /\ hist[1].pc = "returned" /\ hist[2].pc = "returned"
    /\ Len(hist[2].Y) = 3
    /\ hist[2].y_true[1][1] # hist[2].Y[1]

\* C3: a call with per_time_step=True and y_true=None never returns a result,
\* whatever the number of rows of X.
C3_NoneTargetsAlwaysRaise ==
    \A i \in DOMAIN Runs :
        (Runs[i].per_time_step /\ Runs[i].y_true = None) => Runs[i].pc # "returned"

----------------------------------------------------------------------------
(* generate_parameter_combinations *)

\* "for j in range(0, len(rest)): list_obj = [v]; list_obj.extend(rest[j]);
\* combinations.append(list_obj)" for one value v of the first parameter
InnerLoop(v, rest) == [j \in 1..Len(rest) |-> <<v>> \o rest[j]]

\* "for i in range(0, len(values_first_element))" from position i on
RECURSIVE OuterLoop(_, _, _)
OuterLoop(first, i, rest) ==
    IF i > Len(first) THEN <<>>
    ELSE InnerLoop(first[i], rest) \o OuterLoop(first, i + 1, rest)

\* The loops with the first parameter in the inner loop: a variant of the
\* function in which the first parameter varies fastest.
RECURSIVE generate_parameter_combinations_FirstFastest(_, _)
generate_parameter_combinations_FirstFastest(parameter_dict, params) ==
    IF Len(params) = 1
    THEN Some([k \in 1..Len(parameter_dict[params[1]]) |-> <<parameter_dict[params[1]][k]>>])
    ELSE IF Len(params) = 0
    THEN None
    ELSE LET rest  == generate_parameter_combinations_FirstFastest(parameter_dict,
                                                                   Tail(params))[1]
             first == parameter_dict[params[1]]
         IN  Some([k \in 1..(Len(first) * Len(rest)) |->
                      <<first[((k - 1) % Len(first)) + 1]>>
                          \o rest[((k - 1) \div Len(first)) + 1]])

\* The list of combinations, or None where the code raises: with an empty
\* params the else branch pops from an empty list.
RECURSIVE generate_parameter_combinations(_, _)
generate_parameter_combinations(parameter_dict, params) ==
    IF Len(params) = 1
    THEN Some([k \in 1..Len(parameter_dict[params[1]]) |-> <<parameter_dict[params[1]][k]>>])
    ELSE IF Len(params) = 0
    THEN None
    ELSE LET rest  == generate_parameter_combinations(parameter_dict, Tail(params))[1]
             first == parameter_dict[params[1]]
         IN  Some(OuterLoop(first, 1, rest))

\* One call of the function.
GenerateCombinations ==
    /\ comb.pc = "call"
    /\ LET r == generate_parameter_combinations(comb.parameter_dict, comb.params)
       IN  IF r = None
           THEN comb' = [comb EXCEPT !.pc = "error"]
           ELSE comb' = [comb EXCEPT !.pc = "returned", !.combinations = r[1]]
    /\ UNCHANGED <<env, sc, gs, rc, pr, hist, fc, ev>>

\* the parameter names and candidate values of the calls explored
ParamNames == {"a", "reservoir_size"}
ParamVals == {1, 2}

SeqsUpTo(S, n) == UNION {[1..k -> S] : k \in 0..n}

InitComb ==
    /\ fc = Idle /\ ev = Idle
    /\ env \in Envs
    /\ sc = Idle /\ gs = Idle /\ rc = Idle /\ pr = Idle /\ hist = <<>>
    /\ comb \in [pc : {"call"},
                 parameter_dict : [ParamNames -> SeqsUpTo(ParamVals, MaxVals)],
                 params : SeqsUpTo(ParamNames, MaxParams),
                 combinations : {<<>>}]

NextComb == GenerateCombinations

SpecComb == InitComb /\ [][NextComb]_vars

\* the candidate list of the parameter at position i of the call
ValuesAt(i) == comb.parameter_dict[comb.params[i]]

RECURSIVE ProdLen(_)
ProdLen(i) == IF i > Len(comb.params) THEN 1 ELSE Len(ValuesAt(i)) * ProdLen(i + 1)

\* C5: for a non-empty params the call returns the cartesian product of the
\* candidate lists, each element once: as many entries as the product of the
\* list lengths, and entry k (from 0) holds at position i the value whose
\* index is digit i of k written in the mixed radix of the list lengths,
\* first parameter most significant (it varies slowest, every list in its
\* declared order).
C5_CartesianProduct ==
    (comb.pc # "call" /\ Len(comb.params) >= 1) =>
        /\ comb.pc = "returned"
        /\ Len(comb.combinations) = ProdLen(1)
        /\ \A k \in 0..(Len(comb.combinations) - 1) :
               /\ Len(comb.combinations[k + 1]) = Len(comb.params)
               /\ \A i \in 1..Len(comb.params) :
                      comb.combinations[k + 1][i]
                          = ValuesAt(i)[((k \div ProdLen(i + 1)) % Len(ValuesAt(i))) + 1]

\* a call with three parameters over two lists of two different values each
\* returned eight entries
C5_Witness ==
    /\ comb.pc = "returned"
    /\ Len(comb.params) = 3
    /\ comb.params[1] # comb.params[2]
    /\ \A i \in 1..3 : Len(ValuesAt(i)) = 2 /\ ValuesAt(i)[1] # ValuesAt(i)[2]
    /\ Len(comb.combinations) = 8

----------------------------------------------------------------------------
(* gridsearch_reservoir_computing and gridsearch_time_series *)

\* washout_period of reservoir_computing
washout_period == 10

\* sys.float_info.max
FloatMax == 1000000

\* tuned_parameters of the two searches: the keys in the order of the dict
\* and the candidate values (a = 0.6, 0.8)
TunedKeys(fn) ==
    IF fn = "reservoir_computing" THEN <<"a", "reservoir_size">>
    ELSE <<"ar", "ma", "d">>

TunedParameters(fn) ==
    IF fn = "reservoir_computing"
    THEN [a |-> <<12, 16>>, reservoir_size |-> <<400, 700, 1000>>]
    ELSE [ar |-> <<0, 5>>, ma |-> <<0, 5>>, d |-> <<1>>]

\* the parameters the search returns, in the order of the return statement
ReturnedKeys(fn) ==
    IF fn = "reservoir_computing" THEN <<"reservoir_size", "a">>
    ELSE <<"ar", "ma", "d">>

\* keys.index(name), counted from 1
KeyIndex(keys, name) == CHOOSE i \in 1..Len(keys) : keys[i] = name

\* tbl.iloc[lo:hi, ] for 0 <= lo and 0 <= hi: the slice is cut to the table
ILocSlice(tbl, lo, hi) ==
    LET h == IF hi > Len(tbl) THEN Len(tbl) ELSE hi
    IN  IF lo >= h THEN <<>> ELSE SubSeq(tbl, lo + 1, h)

\* int(gridsearch_training_frac * len(train_X.index)) for the fraction
\* frac[1] / frac[2] >= 0
SplitPoint(frac, n) == (frac[1] * n) \div frac[2]

\* The search up to its loop: the combinations, the split of the training
\* data, the initial best_error (left unbound for an unknown metric: None)
\* and best_combination = [].
GridStartFrame_TargetsOffByOne(f) ==
    LET split_point == SplitPoint(f.gridsearch_training_frac, Len(f.train_X))
    IN  [f EXCEPT
            !.pc = "loop",
            !.keys = TunedKeys(f.fn),
            !.combinations =
                generate_parameter_combinations(TunedParameters(f.fn), TunedKeys(f.fn))[1],
            !.split_point = split_point,
            !.train_params_X = ILocSlice(f.train_X, 0, split_point),
            !.test_params_X = ILocSlice(f.train_X, split_point, Len(f.train_X)),
            !.train_params_y = ILocSlice(f.train_y, 0, split_point + 1),
            !.test_params_y = ILocSlice(f.train_y, split_point + 1, Len(f.train_X)),
            !.best_error = IF f.error = "mse" THEN Some(FloatMax)
                           ELSE IF f.error = "accuracy" THEN Some(0)
                           ELSE None,
            !.best_combination = <<>>]

GridStartFrame(f) ==
    LET split_point == SplitPoint(f.gridsearch_training_frac, Len(f.train_X))
    IN  [f EXCEPT
            !.pc = "loop",
            !.keys = TunedKeys(f.fn),
            !.combinations =
                generate_parameter_combinations(TunedParameters(f.fn), TunedKeys(f.fn))[1],
            !.split_point = split_point,
            !.train_params_X = ILocSlice(f.train_X, 0, split_point),
            !.test_params_X = ILocSlice(f.train_X, split_point, Len(f.train_X)),
            !.train_params_y = ILocSlice(f.train_y, 0, split_point),
            !.test_params_y = ILocSlice(f.train_y, split_point, Len(f.train_X)),
            !.best_error = IF f.error = "mse" THEN Some(FloatMax)
                           ELSE IF f.error = "accuracy" THEN Some(0)
                           ELSE None,
            !.best_combination = <<>>]

GridStart ==
    /\ gs.pc = "call"
    /\ gs' = GridStartFrame(gs)
    /\ UNCHANGED <<env, sc, comb, rc, pr, hist, fc, ev>>

\* the scores a trained combination may obtain on the validation rows: the
\* mean squared error (0, 0.25, 0.5) and the accuracy (0, 0.5, 1)
MseVals == {0, 5, 10}
AccVals == {0, 10, 20}

\* The nested reservoir_computing call raises before it trains when its
\* training table has fewer rows than the washout period (np.zeros with a
\* negative number of rows).
NestedReservoirRaises(f) == Len(f.train_params_X) < washout_period

\* The nested reservoir_computing call raises at the fit when its training
\* table has as many rows as the washout period, so that the design matrix
\* has no rows, and linalg.pinv rejects the empty matrix.
NestedFitRaises(f) == Len(f.train_params_X) = washout_period /\ env.empty_pinv_raises

\* The nested reservoir_computing call raises after it trained when the
\* validation table has no rows and idxmax rejects the empty prediction.
NestedPredictRaises(f) == f.test_params_X = <<>> /\ env.empty_idxmax_raises

\* The evaluation (Chapter 7, on sklearn.metrics) raises on a validation
\* table without rows.
EvaluationRaises(f) == f.test_params_y = <<>>

\* "if mse < best_error: best_error = mse; best_combination = comb"
KeepLower(f, cmb, mse) ==
    IF mse < f.best_error[1]
    THEN [f EXCEPT !.best_error = Some(mse), !.best_combination = cmb]
    ELSE f

\* "if acc > best_error: best_error = acc; best_combination = comb"
KeepHigher(f, cmb, acc) ==
    IF acc > f.best_error[1]
    THEN [f EXCEPT !.best_error = Some(acc), !.best_combination = cmb]
    ELSE f

\* the frame after the pass for one more combination
Looped(f) == [f EXCEPT !.ci = @ + 1]

\* the frame after the nested call trained a model
Trained(f) == [f EXCEPT !.trained = @ + 1]

\* the frame after the evaluation gave a score
Scored(f, score) == [f EXCEPT !.scores = Append(@, score)]

\* the frame after an exception left the function
Raised(f) == [f EXCEPT !.pc = "error"]

\* the frame after the call "self.reservoir_computing(train_params_X, ..,
\* reservoir_size=comb[keys.index('reservoir_size')], a=comb[keys.index('a')],
\* per_time_step=per_time_step, gridsearch=False)" was made: calls records
\* the arguments of every nested call
Called(f, cmb) ==
    [f EXCEPT !.calls = Append(@, [train_X |-> f.train_params_X,
                                   test_X |-> f.test_params_X,
                                   reservoir_size |-> cmb[KeyIndex(f.keys, "reservoir_size")],
                                   a |-> cmb[KeyIndex(f.keys, "a")],
                                   per_time_step |-> f.per_time_step,
                                   gridsearch |-> FALSE])]

\* One pass of the loop of gridsearch_reservoir_computing: train and predict
\* with the combination, then score it under the metric; under a metric that
\* is neither 'mse' nor 'accuracy' the pass scores nothing.
GridStepReservoir ==
    /\ gs.pc = "loop" /\ gs.fn = "reservoir_computing"
    /\ gs.ci < Len(gs.combinations)
    /\ LET cmb == gs.combinations[gs.ci + 1]
       IN  IF NestedReservoirRaises(gs)
           THEN gs' = Raised(Called(gs, cmb))
           ELSE IF NestedFitRaises(gs)
           THEN gs' = Raised(Called(gs, cmb))
           ELSE IF NestedPredictRaises(gs)
           THEN gs' = Raised(Trained(Called(gs, cmb)))
           ELSE IF gs.error = "mse"
           THEN IF EvaluationRaises(gs)
                THEN gs' = Raised(Trained(Called(gs, cmb)))
                ELSE \E mse \in MseVals :
                         gs' = Looped(KeepLower(Scored(Trained(Called(gs, cmb)), mse), cmb, mse))
           ELSE IF gs.error = "accuracy"
           THEN IF EvaluationRaises(gs)
                THEN gs' = Raised(Trained(Called(gs, cmb)))
                ELSE \E acc \in AccVals :
                         gs' = Looped(KeepHigher(Scored(Trained(Called(gs, cmb)), acc), cmb, acc))
           ELSE gs' = Looped(Trained(Called(gs, cmb)))
    /\ UNCHANGED <<env, sc, comb, rc, pr, hist, fc, ev>>

\* One pass of the loop of gridsearch_time_series: fit and predict with the
\* combination (the fit raises on a training table without rows), compute the
\* mean squared error and compare it with best_error, which raises when
\* best_error is unbound.
GridStepTimeSeries ==
    /\ gs.pc = "loop" /\ gs.fn = "time_series"
    /\ gs.ci < Len(gs.combinations)
    /\ LET cmb == gs.combinations[gs.ci + 1]
       IN  IF gs.train_params_X = <<>>
           THEN gs' = Raised(gs)
           ELSE IF EvaluationRaises(gs)
           THEN gs' = Raised(Trained(gs))
           ELSE \E mse \in MseVals :
                    IF gs.best_error = None
                    THEN gs' = Raised(Scored(Trained(gs), mse))
                    ELSE gs' = Looped(KeepLower(Scored(Trained(gs), mse), cmb, mse))
    /\ UNCHANGED <<env, sc, comb, rc, pr, hist, fc, ev>>

\* After the loop: return best_combination[keys.index(..)] for the returned
\* parameters; indexing the empty best_combination raises.
GridReturn ==
    /\ gs.pc = "loop"
    /\ gs.ci = Len(gs.combinations)
    /\ IF gs.best_combination = <<>>
       THEN gs' = [gs EXCEPT !.pc = "error"]
       ELSE gs' = [gs EXCEPT
                      !.pc = "returned",
                      !.ret = [k \in 1..Len(ReturnedKeys(gs.fn)) |->
                                  gs.best_combination[KeyIndex(gs.keys,
                                                               ReturnedKeys(gs.fn)[k])]]]
    /\ UNCHANGED <<env, sc, comb, rc, pr, hist, fc, ev>>

\* the training tables of n rows of a search: row i of X holds i, row i of y
\* holds -i
GridTable(n, sign) == [i \in 1..n |-> <<sign * i>>]

\* the fractions explored: 0, 0.3, 0.7 (the default), 1
GridFractions == {<<0, 1>>, <<3, 10>>, <<7, 10>>, <<1, 1>>}

\* the metric names explored: the two known ones and another one
ErrorNames == {"mse", "accuracy", "f1"}

GridCallFrame(fn, train_X, train_y, per_time_step, error, gridsearch_training_frac) ==
    [pc |-> "call", fn |-> fn, train_X |-> train_X, train_y |-> train_y,
     per_time_step |-> per_time_step, error |-> error,
     gridsearch_training_frac |-> gridsearch_training_frac,
     keys |-> <<>>, combinations |-> <<>>, split_point |-> 0,
     train_params_X |-> <<>>, test_params_X |-> <<>>,
     train_params_y |-> <<>>, test_params_y |-> <<>>,
     best_error |-> None, best_combination |-> <<>>,
     ci |-> 0, trained |-> 0, scores |-> <<>>, calls |-> <<>>, ret |-> <<>>]

InitGrid ==
    /\ fc = Idle /\ ev = Idle
    /\ env \in Envs
    /\ sc = Idle /\ comb = Idle /\ rc = Idle /\ pr = Idle /\ hist = <<>>
    /\ \E fn \in {"reservoir_computing", "time_series"}, n \in 0..MaxGridRows,
          error \in ErrorNames, frac \in GridFractions :
           gs = GridCallFrame(fn, GridTable(n, 1), GridTable(n, -1), FALSE, error, frac)

NextGrid == GridStart \/ GridStepReservoir \/ GridStepTimeSeries \/ GridReturn

SpecGrid == InitGrid /\ [][NextGrid]_vars

\* the position (from 1) of the first best score: the lowest under 'mse', the
\* highest under 'accuracy'
FirstBest(error, scores) ==
    CHOOSE b \in 1..Len(scores) :
        /\ \A k \in 1..Len(scores) :
               IF error = "mse" THEN scores[b] <= scores[k] ELSE scores[b] >= scores[k]
        /\ \A k \in 1..(b - 1) : scores[k] # scores[b]

\* C4: under 'mse' or 'accuracy', once every combination of the grid has its
\* validation score, gridsearch_reservoir_computing returns the
\* (reservoir_size, a) of the best-scoring combination, the first one among
\* equal best scores, whatever the scores are (every accuracy 0 included).
C4_ReturnsFirstBest ==
    (/\ gs.fn = "reservoir_computing"
     /\ gs.error \in {"mse", "accuracy"}
     /\ gs.pc \in {"returned", "error"}
     /\ Len(gs.combinations) > 0
     /\ Len(gs.scores) = Len(gs.combinations))
        => /\ gs.pc = "returned"
           /\ LET best == gs.combinations[FirstBest(gs.error, gs.scores)]
              IN  gs.ret = <<best[KeyIndex(gs.keys, "reservoir_size")],
                             best[KeyIndex(gs.keys, "a")]>>

C7_UnknownMetricFailsFast ==
    gs.pc # "idle" =>
        (gs.error \notin {"mse", "accuracy"} =>
            /\ gs.trained = 0
            /\ gs.scores = <<>>
            /\ gs.pc # "returned")

----------------------------------------------------------------------------
(* create_numerical_multiple_dataset, normalize, denormalize *)

\* A DataFrame with named columns: the names, the kind of values of every
\* column ("number" or "object", a column of category names), the row labels
\* and the rows.
DataFrame(data, columns, dtypes, index) ==
    [columns |-> columns, dtypes |-> dtypes, index |-> index, data |-> data]

\* a DataFrame of numbers with the given column names, labelled 0, 1, ..
NumberFrame(data, columns) ==
    DataFrame(data, columns, [c \in 1..Len(columns) |-> "number"],
              [i \in 1..Len(data) |-> i - 1])

\* the category names, in sorted order
CategoryOrder == <<"run", "sit", "walk">>

\* the elements of a sequence
Range(seq) == {seq[i] : i \in 1..Len(seq)}

RECURSIVE Flatten(_)
Flatten(seqs) == IF seqs = <<>> THEN <<>> ELSE Head(seqs) \o Flatten(Tail(seqs))

\* train.append(test) for tables of the same columns
FrameAppend(train, test) ==
    DataFrame(train.data \o test.data, train.columns, train.dtypes,
              train.index \o test.index)

\* df.iloc[lo:hi, :]
FrameILoc(df, lo, hi) ==
    DataFrame(ILocSlice(df.data, lo, hi), df.columns, df.dtypes,
              ILocSlice(df.index, lo, hi))

\* the sorted values that occur in column c
Levels(df, c) ==
    LET Occurs(v) == \E i \in 1..Len(df.data) : df.data[i][c] = v
    IN  SelectSeq(CategoryOrder, Occurs)

\* pd.get_dummies(df, prefix='', prefix_sep=''): the columns of numbers come
\* first, as they are; after them every column of category names gives one
\* column of 0 and 1 per value that occurs in it, named as the value, the
\* values in sorted order.
GetDummies(df) ==
    LET all       == [c \in 1..Len(df.columns) |-> c]
        IsNumber(c) == df.dtypes[c] = "number"
        IsObject(c) == df.dtypes[c] = "object"
        kept      == SelectSeq(all, IsNumber)
        encoded   == SelectSeq(all, IsObject)
        dummy_names == Flatten([k \in 1..Len(encoded) |-> Levels(df, encoded[k])])
        DummyRow(row) ==
            Flatten([k \in 1..Len(encoded) |->
                        LET lv == Levels(df, encoded[k])
                        IN  [l \in 1..Len(lv) |->
                                IF row[encoded[k]] = lv[l] THEN Unit ELSE 0]])
    IN  DataFrame([i \in 1..Len(df.data) |->
                      [k \in 1..Len(kept) |-> df.data[i][kept[k]]] \o DummyRow(df.data[i])],
                  [k \in 1..Len(kept) |-> df.columns[kept[k]]] \o dummy_names,
                  [k \in 1..(Len(kept) + Len(dummy_names)) |-> "number"],
                  df.index)

\* a variant that converts train and test one by one
create_numerical_multiple_dataset_OneByOne(train, test) ==
    <<GetDummies(train), GetDummies(test)>>

\* total = train.append(test), get_dummies, and the split at len(train.index)
create_numerical_multiple_dataset(train, test) ==
    LET total_dataset == GetDummies(FrameAppend(train, test))
    IN  <<FrameILoc(total_dataset, 0, Len(train.index)),
          FrameILoc(total_dataset, Len(train.index), Len(train.index) + Len(test.index))>>

\* the columns (by position) of a table with at least one row
Columns(tbl) == 1..Len(tbl[1])

ColumnMax(tbl, c) ==
    CHOOSE m \in {tbl[i][c] : i \in 1..Len(tbl)} : \A i \in 1..Len(tbl) : tbl[i][c] <= m

ColumnMin(tbl, c) ==
    CHOOSE m \in {tbl[i][c] : i \in 1..Len(tbl)} : \A i \in 1..Len(tbl) : tbl[i][c] >= m

\* difference = maximum - minimum; difference.replace(0, 1)
Difference(maximum, minimum) ==
    [c \in DOMAIN maximum |->
        IF maximum[c] - minimum[c] = 0 THEN Unit ELSE maximum[c] - minimum[c]]

\* (((v - minimum) / difference) * (range_max - range_min)) + range_min
NormalizeCell(v, mn, diff, range_min, range_max) ==
    ((((v - mn) * Unit) \div diff) * (range_max - range_min)) \div Unit + range_min

\* a variant of normalize that takes the minimum and maximum of train alone
normalize_TrainOnly(train, test, range_min, range_max) ==
    LET maximum    == [c \in Columns(train) |-> ColumnMax(train, c)]
        minimum    == [c \in Columns(train) |-> ColumnMin(train, c)]
        difference == Difference(maximum, minimum)
        scaled(tbl) ==
            [i \in 1..Len(tbl) |->
                [c \in Columns(train) |->
                    NormalizeCell(tbl[i][c], minimum[c], difference[c],
                                  range_min, range_max)]]
    IN  <<scaled(train), scaled(test), minimum, maximum>>

\* normalize(train, test, range_min, range_max) on a train table with rows:
\* new_train, new_test, minimum, maximum
normalize(train, test, range_min, range_max) ==
    LET total      == train \o test
        maximum    == [c \in Columns(total) |-> ColumnMax(total, c)]
        minimum    == [c \in Columns(total) |-> ColumnMin(total, c)]
        difference == Difference(maximum, minimum)
        scaled(tbl) ==
            [i \in 1..Len(tbl) |->
                [c \in Columns(total) |->
                    NormalizeCell(tbl[i][c], minimum[c], difference[c],
                                  range_min, range_max)]]
    IN  <<scaled(train), scaled(test), minimum, maximum>>

\* a variant of denormalize that does not add the minimum back
denormalize_NoMinimum(y, minimum, maximum, range_min, range_max) ==
    LET difference == Difference(maximum, minimum)
    IN  [i \in 1..Len(y) |->
            [c \in DOMAIN minimum |->
                ((((y[i][c] - range_min) * Unit) \div (range_max - range_min))
                    * difference[c]) \div Unit]]

\* denormalize(y, minimum, maximum, range_min, range_max)
denormalize(y, minimum, maximum, range_min, range_max) ==
    LET difference == Difference(maximum, minimum)
    IN  [i \in 1..Len(y) |->
            [c \in DOMAIN minimum |->
                ((((y[i][c] - range_min) * Unit) \div (range_max - range_min))
                    * difference[c]) \div Unit + minimum[c]]]

----------------------------------------------------------------------------
(* reservoir_computing *)

\* y_prev of the training loop: the target of the previous row, zeros at t = 0
TrainFeedback(f) ==
    IF f.t > 0 THEN Row(f.new_train_y, f.t - 1) ELSE Zeros(f.outputs)

\* x = (1 - a) * x + a * tanh(Win [1; u] + W x + Wback y_prev), in the loop of
\* the training
TrainActivation(f, u, y_prev) ==
    LET pre == [i \in 1..Len(f.x) |->
                   DotRow(f.Win[i], <<Unit>> \o u) + DotRow(f.W[i], f.x)
                   + DotRow(f.Wback[i], y_prev)]
    IN  [i \in 1..Len(f.x) |->
            ((Unit - f.a) * f.x[i]) \div Unit + (f.a * Tanh(pre[i])) \div Unit]

\* "if t >= washout_period: X[t - washout_period, :] = [1; u; x]", and a
\* variant that stores from the step after the washout period on
DesignStore_AfterWashoutOnly(X, t, u, x) ==
    IF t > washout_period
    THEN [X EXCEPT ![t - washout_period + 1] = <<Unit>> \o u \o x]
    ELSE X

DesignStore(X, t, u, x) ==
    IF t >= washout_period
    THEN [X EXCEPT ![t - washout_period + 1] = <<Unit>> \o u \o x]
    ELSE X

\* a variant that draws the readout for a design matrix without rows as well
FitCandidates_AlwaysDrawn(X, outputs, width) ==
    {WoutDraw(seed, outputs, width) : seed \in Seeds}

\* The candidates for Wout = transpose(pinv(X) Yt).  The least-squares
\* solution is not computed: it is any drawn matrix of its shape, and the
\* zero matrix for a design matrix without rows.
FitCandidates(X, outputs, width) ==
    IF X = <<>> THEN {[k \in 1..outputs |-> Zeros(width)]}
    ELSE {WoutDraw(seed, outputs, width) : seed \in Seeds}

\* "X_p = linalg.pinv(X)" raises on a design matrix without rows where the
\* library rejects the empty matrix
PinvRaises(X) == X = <<>> /\ env.empty_pinv_raises

\* the frame of a call with gridsearch=False
RcCallFrame(train_X, train_y, test_X, test_y, reservoir_size, a, per_time_step) ==
    [pc |-> "call", train_X |-> train_X, train_y |-> train_y, test_X |-> test_X,
     test_y |-> test_y, reservoir_size |-> reservoir_size, a |-> a,
     per_time_step |-> per_time_step, gridsearch |-> FALSE,
     new_train_X |-> <<>>, new_test_X |-> <<>>, new_train_y |-> <<>>,
     new_test_y |-> <<>>, min_y |-> <<>>, max_y |-> <<>>,
     inputs |-> 0, outputs |-> 0, Win |-> <<>>, W |-> <<>>, Wback |-> <<>>,
     Wout |-> <<>>, X |-> <<>>, Yt |-> <<>>, x |-> <<>>, t |-> 0, xs |-> <<>>,
     pred_train |-> <<>>, pred_test |-> <<>>, ret |-> <<>>]

\* From the call to the training loop: the numerical tables, the
\* normalisation (inputs to [0, 1], targets to [-0.9, 0.9]), the drawn
\* weights, the design matrix of zeros (np.zeros raises on a negative number
\* of rows), the arctanh of the targets after the washout and x = 0.
RcSetup ==
    /\ (rc.pc = "call" /\ ~rc.gridsearch) \/ rc.pc = "searched"
    /\ \E seed \in Seeds :
        LET xcols == SubSeq(FeatureNames, 1, Len(rc.train_X[1]))
            ycols == SubSeq(ColNames, 1, Len(rc.train_y[1]))
            encX == create_numerical_multiple_dataset(NumberFrame(rc.train_X, xcols),
                                                      NumberFrame(rc.test_X, xcols))
            encY == create_numerical_multiple_dataset(NumberFrame(rc.train_y, ycols),
                                                      NumberFrame(rc.test_y, ycols))
            nX   == normalize(encX[1].data, encX[2].data, 0, Unit)
            nY   == normalize(encY[1].data, encY[2].data, -18, 18)
            inputs  == Len(nX[1][1])
            outputs == Len(nY[1][1])
            net  == initialize_echo_state_network(seed, inputs, outputs, rc.reservoir_size)
            rows == Len(rc.train_X) - washout_period
            set  == [rc EXCEPT
                        !.new_train_X = nX[1], !.new_test_X = nX[2],
                        !.new_train_y = nY[1], !.new_test_y = nY[2],
                        !.min_y = nY[3], !.max_y = nY[4],
                        !.inputs = inputs, !.outputs = outputs,
                        !.Win = net.Win, !.W = net.W, !.Wback = net.Wback]
        IN  IF rows < 0
            THEN rc' = [set EXCEPT !.pc = "error"]
            ELSE rc' = [set EXCEPT
                           !.pc = "train",
                           !.X = [r \in 1..rows |-> Zeros(1 + inputs + rc.reservoir_size)],
                           !.Yt = LET late == ILocSlice(nY[1], washout_period, Len(nY[1]))
                                  IN  [r \in 1..Len(late) |->
                                          [c \in 1..outputs |-> ArcTanh(late[r][c])]],
                           !.x = Zeros(rc.reservoir_size),
                           !.t = 0]
    /\ UNCHANGED <<env, sc, comb, gs, pr, hist, fc, ev>>

\* One pass of the training loop.  xs records the x of every pass, in order.
RcTrainStep ==
    /\ rc.pc = "train"
    /\ rc.t < Len(rc.new_train_X)
    /\ LET u  == Row(rc.new_train_X, rc.t)
           x2 == TrainActivation(rc, u, TrainFeedback(rc))
       IN  rc' = [rc EXCEPT !.x = x2, !.xs = Append(@, x2),
                            !.X = DesignStore(@, rc.t, u, x2),
                            !.t = @ + 1]
    /\ UNCHANGED <<env, sc, comb, gs, pr, hist, fc, ev>>

\* After the training loop: fit Wout and call the prediction on the training
\* table.
RcFit ==
    /\ rc.pc = "train"
    /\ rc.t = Len(rc.new_train_X)
    /\ pr.pc = "idle"
    /\ ~PinvRaises(rc.X)
    /\ \E Wout \in FitCandidates(rc.X, rc.outputs, 1 + rc.inputs + rc.reservoir_size) :
        /\ rc' = [rc EXCEPT !.pc = "predict_train", !.Wout = Wout]
        /\ pr' = PredictFrame(rc.Win, rc.W, rc.Wback, Wout, rc.a, rc.reservoir_size,
                              rc.new_train_X, Some(rc.new_train_y),
                              SubSeq(ColNames, 1, rc.outputs), rc.per_time_step)
    /\ UNCHANGED <<env, sc, comb, gs, hist, fc, ev>>

\* After the training loop linalg.pinv raised: the exception leaves
\* reservoir_computing before Wout exists and before any prediction.
RcFitRaised ==
    /\ rc.pc = "train"
    /\ rc.t = Len(rc.new_train_X)
    /\ PinvRaises(rc.X)
    /\ rc' = [rc EXCEPT !.pc = "error"]
    /\ UNCHANGED <<env, sc, comb, gs, pr, hist, fc, ev>>

\* The prediction on the training table returned: call the prediction on the
\* test table.
RcPredictTest ==
    /\ rc.pc = "predict_train"
    /\ pr.pc = "returned"
    /\ rc' = [rc EXCEPT !.pc = "predict_test", !.pred_train = pr.ret]
    /\ pr' = PredictFrame(rc.Win, rc.W, rc.Wback, rc.Wout, rc.a, rc.reservoir_size,
                          rc.new_test_X, Some(rc.new_test_y),
                          SubSeq(ColNames, 1, rc.outputs), rc.per_time_step)
    /\ hist' = Append(hist, pr)
    /\ UNCHANGED <<env, sc, comb, gs, fc, ev>>

\* The prediction on the test table returned: denormalise the two probability
\* tables and return.
RcReturn ==
    /\ rc.pc = "predict_test"
    /\ pr.pc = "returned"
    /\ rc' = [rc EXCEPT
                 !.pc = "returned",
                 !.pred_test = pr.ret,
                 !.ret = <<rc.pred_train[1], pr.ret[1],
                           denormalize(rc.pred_train[2], rc.min_y, rc.max_y, -18, 18),
                           denormalize(pr.ret[2], rc.min_y, rc.max_y, -18, 18)>>]
    /\ pr' = Idle
    /\ hist' = Append(hist, pr)
    /\ UNCHANGED <<env, sc, comb, gs, fc, ev>>

\* A prediction raised: the exception leaves reservoir_computing as well.
RcPredictRaised ==
    /\ rc.pc \in {"predict_train", "predict_test"}
    /\ pr.pc = "error"
    /\ rc' = [rc EXCEPT !.pc = "error"]
    /\ pr' = Idle
    /\ hist' = Append(hist, pr)
    /\ UNCHANGED <<env, sc, comb, gs, fc, ev>>

\* a column of n rows that holds hi in every k-th row and lo elsewhere
Wave(n, k, lo, hi) == [i \in 1..n |-> <<IF i % k = 0 THEN hi ELSE lo>>]

\* the reservoir sizes and leak rates of the calls explored (a = 0.6, 0.8)
ReservoirSizes == {1, 2}
LeakRates == {12, 16}

InitTrain ==
    /\ fc = Idle /\ ev = Idle
    /\ env \in Envs
    /\ sc = Idle /\ comb = Idle /\ gs = Idle /\ pr = Idle /\ hist = <<>>
    /\ \E n \in (washout_period - 1)..(washout_period + MaxTrainExtra),
          m \in 0..MaxTestRows, kx \in {2, 3}, ky \in {2, 3},
          reservoir_size \in ReservoirSizes, a \in LeakRates, pts \in BOOLEAN :
           rc = RcCallFrame(Wave(n, kx, 0, 2 * Unit), Wave(n, ky, 0, Unit),
                            Wave(m, kx, 2 * Unit, Unit), Wave(m, ky, Unit, 0),
                            reservoir_size, a, pts)

NextTrain ==
    \/ RcSetup \/ RcTrainStep \/ RcFit \/ RcFitRaised \/ PredictStep \/ PredictReturn
    \/ RcPredictTest \/ RcReturn \/ RcPredictRaised

SpecTrain == InitTrain /\ [][NextTrain]_vars

\* C8: the reservoir state is the zero vector when the training pass starts
\* and when each of the two prediction passes starts, whatever state the
\* pass before left.
C8_StateResetPerPass ==
    /\ (rc.pc = "train" /\ rc.t = 0) => rc.x = Zeros(rc.reservoir_size)
    /\ (rc.pc \in {"predict_train", "predict_test"} /\ pr.pc = "loop" /\ pr.t = 0)
           => pr.x = Zeros(rc.reservoir_size)

\* the prediction on the test table starts with x = 0 although the training
\* pass and the prediction on the training table both ended with x # 0
C8_Witness ==
    /\ rc.pc = "predict_test"
    /\ pr.pc = "loop" /\ pr.t = 0
    /\ pr.x = Zeros(rc.reservoir_size)
    /\ rc.x # Zeros(rc.reservoir_size)
    /\ Len(hist) = 1
    /\ hist[1].x # Zeros(rc.reservoir_size)

\* the positions of a run at which the weights drawn at initialisation exist
RcRunning == {"train", "predict_train", "predict_test", "returned", "error"}

\* C9: from the initialisation on no step of the run changes Win, W or
\* Wback, the prediction passes work with these same matrices, and from the
\* fit on no step changes Wout.
C9_WeightsFixed ==
    [][/\ rc.pc \in RcRunning =>
            /\ rc'.Win = rc.Win /\ rc'.W = rc.W /\ rc'.Wback = rc.Wback
            /\ pr'.pc = "loop" =>
                   /\ pr'.Win = rc.Win /\ pr'.W = rc.W /\ pr'.Wback = rc.Wback
                   /\ pr'.Wout = rc'.Wout
       /\ rc.pc \in {"predict_train", "predict_test"} => rc'.Wout = rc.Wout]_vars

\* the run returned after a fit on a design matrix with rows and two
\* prediction passes with rows
C9_Witness ==
    /\ rc.pc = "returned"
    /\ Len(rc.X) >= 1
    /\ Len(hist) = 2
    /\ Len(hist[1].Y) >= 1 /\ Len(hist[2].Y) >= 1
    /\ hist[2].W = rc.W /\ hist[2].Wout = rc.Wout

\* C10: in a training over n >= washout_period rows the reservoir is updated
\* in every step, the design matrix and the target matrix have
\* n - washout_period rows, row t - washout_period of the design matrix is
\* [1; u_t; x_t] once step t >= washout_period is done (so after the last
\* step no row is left as allocated) and the target paired with it is the
\* arctanh of the normalised target of row t.
C10_WashoutRows ==
    (rc.pc \in {"train", "predict_train", "predict_test", "returned"}) =>
        LET n == Len(rc.train_X)
        IN  /\ n >= washout_period
            /\ Len(rc.xs) = rc.t
            /\ rc.pc # "train" => rc.t = n
            /\ Len(rc.X) = n - washout_period
            /\ Len(rc.Yt) = n - washout_period
            /\ \A t \in washout_period..(n - 1) :
                   /\ rc.X[t - washout_period + 1] =
                          IF t < rc.t
                          THEN <<Unit>> \o Row(rc.new_train_X, t) \o rc.xs[t + 1]
                          ELSE Zeros(1 + rc.inputs + rc.reservoir_size)
                   /\ rc.Yt[t - washout_period + 1] =
                          [c \in 1..rc.outputs |-> ArcTanh(Row(rc.new_train_y, t)[c])]

\* the training over 12 rows is done: 12 updates and two design rows, the
\* first of them written in step 10
C10_Witness ==
    /\ rc.pc = "predict_train"
    /\ Len(rc.train_X) = washout_period + 2
    /\ Len(rc.xs) = washout_period + 2
    /\ Len(rc.X) = 2
    /\ rc.X[1] = <<Unit>> \o Row(rc.new_train_X, washout_period) \o rc.xs[washout_period + 1]
    /\ rc.X[1] # rc.X[2]

\* C11: in a run with per_time_step=True the prediction on the training
\* table, given the training targets, is fed zeros at step 0 and the target
\* of row t-1 at step t > 0, and after each of its steps holds the reservoir
\* state the training pass held after the same step.
C11_PredictionRetracesTraining ==
    (rc.pc = "predict_train" /\ pr.pc \in {"loop", "returned"} /\ pr.per_time_step) =>
        /\ pr.X = rc.new_train_X
        /\ pr.t <= Len(rc.xs)
        /\ pr.t > 0 => pr.x = rc.xs[pr.t]
        /\ \A k \in 1..Len(pr.fb) :
               pr.fb[k] = IF k = 1 THEN Zeros(rc.outputs)
                                   ELSE Row(rc.new_train_y, k - 2)

\* the teacher-forced prediction went through all 12 rows of the training
\* table, with feedback that is not zero, and ends in the last state of the
\* training pass, which is not the state of the row before
C11_Witness ==
    /\ rc.pc = "predict_train" /\ pr.pc = "loop" /\ pr.per_time_step
    /\ Len(rc.train_X) = washout_period + 2
    /\ pr.t = washout_period + 2
    /\ pr.x = rc.xs[pr.t]
    /\ pr.x # rc.xs[pr.t - 1]
    /\ \E k \in 1..Len(pr.fb) : pr.fb[k] # Zeros(rc.outputs)

----------------------------------------------------------------------------
(* reservoir_computing on target tables of one or two columns *)

\* the rows beyond the washout period of the training tables explored
MaxClassExtra == 1

\* the target tables explored, n rows each: one numeric column; two indicator
\* columns of two classes that both occur; two indicator columns where every
\* row is of the first class
TargetPatterns == {"one_column", "two_classes", "one_class"}

TargetTable(pattern, n, k) ==
    [i \in 1..n |->
        CASE pattern = "one_column"  -> <<IF i % k = 0 THEN Unit ELSE 0>>
          [] pattern = "two_classes" -> IF i % k = 0 THEN <<Unit, 0>> ELSE <<0, Unit>>
          [] pattern = "one_class"   -> <<Unit, 0>>]

InitClassify ==
    /\ fc = Idle /\ ev = Idle
    /\ env \in Envs
    /\ sc = Idle /\ comb = Idle /\ gs = Idle /\ pr = Idle /\ hist = <<>>
    /\ \E n \in washout_period..(washout_period + MaxClassExtra),
          m \in 0..MaxTestRows, pattern \in TargetPatterns,
          reservoir_size \in ReservoirSizes, a \in LeakRates, pts \in BOOLEAN :
           rc = RcCallFrame(Wave(n, 2, 0, 2 * Unit), TargetTable(pattern, n, 3),
                            Wave(m, 2, 2 * Unit, Unit), TargetTable(pattern, m, 2),
                            reservoir_size, a, pts)

NextClassify ==
    \/ RcSetup \/ RcTrainStep \/ RcFit \/ RcFitRaised \/ PredictStep \/ PredictReturn
    \/ RcPredictTest \/ RcReturn \/ RcPredictRaised

SpecClassify == InitClassify /\ [][NextClassify]_vars

\* C12: in both modes a prediction holds one output row per pass made, the
\* row of pass t computed from row t of X, and the table it returns has one
\* row per row of X, in the order of the passes (the row index of a table is
\* the position of the row), every row with one entry per name in cols, and
\* one label per row.
C12_ShapeInvariant ==
    /\ pr.pc = "loop" =>
           /\ Len(pr.Y) = pr.t
           /\ pr.t > 0 => pr.Y[pr.t] = PredictOutput(pr.Wout, Row(pr.X, pr.t - 1), pr.x)
    /\ \A i \in DOMAIN Runs :
           Runs[i].pc = "returned" =>
               /\ Len(Runs[i].ret[2]) = Len(Runs[i].X)
               /\ Len(Runs[i].ret[1]) = Len(Runs[i].X)
               /\ Runs[i].ret[2] = Runs[i].Y
               /\ \A r \in 1..Len(Runs[i].ret[2]) :
                      Len(Runs[i].ret[2][r]) = Len(Runs[i].cols)

\* a free-running prediction over 11 rows and two target columns returned,
\* after a prediction over no rows or over two
C12_Witness ==
    /\ Len(hist) = 2
    /\ hist[1].pc = "returned" /\ hist[2].pc = "returned"
    /\ ~hist[1].per_time_step
    /\ Len(hist[1].X) = washout_period + 1
    /\ Len(hist[1].ret[2]) = washout_period + 1
    /\ Len(hist[1].cols) = 2
    /\ Len(hist[2].ret[2]) = 2
    /\ hist[1].ret[2][1] # hist[1].ret[2][2]

\* the entry of a row of a returned table in the column of the given name
Entry(f, row, name) == row[KeyIndex(SubSeq(ColNames, 1, f.outputs), name)]

\* in the returned pair (labels, table) every label names a column that
\* holds the largest value of its row
LabelsAreArgMax(f, labels, table) ==
    \A r \in 1..Len(table) :
        \A c \in 1..Len(table[r]) : table[r][c] <= Entry(f, table[r], labels[r])

----------------------------------------------------------------------------
(* normalize followed by denormalize *)

\* most rows of a train table handed to normalize
MaxNormRows == 2

\* the cell values (-1, 0.35 and 2) and the ranges explored
NormVals == {-Unit, 7, 2 * Unit}
NormRanges == {<<0, Unit>>, <<-18, 18>>, <<Unit, Unit>>, <<Unit, 0>>}

\* the frame of a call of normalize and of the calls of denormalize on what
\* it returned
NormCallFrame(train, test, range_min, range_max) ==
    [pc |-> "normalize", train |-> train, test |-> test,
     range_min |-> range_min, range_max |-> range_max,
     new_train |-> <<>>, new_test |-> <<>>, minimum |-> <<>>, maximum |-> <<>>,
     not_a_number |-> FALSE, back_train |-> <<>>, back_test |-> <<>>]

\* new_train, new_test, minimum, maximum = normalize(train, test, ..)
NormalizeCall ==
    /\ fc.pc = "normalize"
    /\ LET res == normalize(fc.train, fc.test, fc.range_min, fc.range_max)
       IN  fc' = [fc EXCEPT !.pc = "normalized",
                            !.new_train = res[1], !.new_test = res[2],
                            !.minimum = res[3], !.maximum = res[4]]
    /\ UNCHANGED <<env, sc, comb, gs, rc, pr, hist, ev>>

\* denormalize(new_train, minimum, maximum, ..) and the same for new_test.
\* With range_max = range_min the division of line 204 is 0 / 0 in every
\* cell, which gives NaN without raising.
DenormalizeCall ==
    /\ fc.pc = "normalized"
    /\ IF fc.range_max = fc.range_min
       THEN fc' = [fc EXCEPT !.pc = "denormalized", !.not_a_number = TRUE]
       ELSE fc' = [fc EXCEPT
                      !.pc = "denormalized",
                      !.back_train = denormalize(fc.new_train, fc.minimum, fc.maximum,
                                                 fc.range_min, fc.range_max),
                      !.back_test = denormalize(fc.new_test, fc.minimum, fc.maximum,
                                                fc.range_min, fc.range_max)]
    /\ UNCHANGED <<env, sc, comb, gs, rc, pr, hist, ev>>

InitNorm ==
    /\ env \in Envs
    /\ sc = Idle /\ comb = Idle /\ gs = Idle /\ rc = Idle /\ pr = Idle
    /\ hist = <<>> /\ ev = Idle
    /\ \E n \in 1..MaxNormRows, m \in 0..1, w \in 1..2, range \in NormRanges :
           \E train \in Tables(n, w, NormVals), test \in Tables(m, w, NormVals) :
               fc = NormCallFrame(train, test, range[1], range[2])

NextNorm == NormalizeCall \/ DenormalizeCall

SpecNorm == InitNorm /\ [][NextNorm]_vars

\* the cells of a table, as pairs of row and column
Cells(tbl) == {<<i, c>> \in (1..Len(tbl)) \X (1..2) : c <= Len(tbl[i])}

\* C14: with range_min <= range_max the returned minimum and maximum of a
\* column are its least and largest value over train and test together,
\* every cell of both returned tables lies in [range_min, range_max], and a
\* column of equal values maps to range_min.
C14_NormalizeIntoRange ==
    (fc.pc \in {"normalized", "denormalized"} /\ fc.range_min <= fc.range_max) =>
        LET total == fc.train \o fc.test
            new   == fc.new_train \o fc.new_test
        IN  /\ Len(fc.new_train) = Len(fc.train) /\ Len(fc.new_test) = Len(fc.test)
            /\ \A c \in DOMAIN fc.minimum :
                   /\ \E i \in 1..Len(total) : total[i][c] = fc.minimum[c]
                   /\ \E i \in 1..Len(total) : total[i][c] = fc.maximum[c]
                   /\ \A i \in 1..Len(total) :
                          /\ fc.minimum[c] <= total[i][c]
                          /\ total[i][c] <= fc.maximum[c]
                          /\ fc.range_min <= new[i][c]
                          /\ new[i][c] <= fc.range_max
                          /\ fc.minimum[c] = fc.maximum[c] => new[i][c] = fc.range_min

\* normalize to [-0.9, 0.9] returned for a test row that holds the largest
\* value of the first column and a second column of equal values
C14_Witness ==
    /\ fc.pc = "normalized"
    /\ fc.range_min = -18 /\ fc.range_max = 18
    /\ Len(fc.train) = 2 /\ Len(fc.test) = 1 /\ Len(fc.minimum) = 2
    /\ fc.train[1][1] < fc.train[2][1] /\ fc.train[2][1] < fc.test[1][1]
    /\ fc.new_test[1][1] = 18 /\ fc.new_train[1][1] = -18
    /\ fc.minimum[2] = fc.maximum[2]
    /\ fc.new_train[1][2] = -18

\* what the two rounded divisions and the two rounded products of the round
\* trip can lose in a column of the given difference
RoundingSlack(difference, range_min, range_max) ==
    (2 * difference + Unit - 1) \div Unit
    + (difference + Abs(range_max - range_min) - 1) \div Abs(range_max - range_min)
    + 1

\* the cells of back are those of orig, up to the rounding of the arithmetic
RoundTrip(orig, back) ==
    /\ ~fc.not_a_number
    /\ Len(back) = Len(orig)
    /\ LET difference == Difference(fc.maximum, fc.minimum)
       IN  \A cell \in Cells(orig) :
               Abs(back[cell[1]][cell[2]] - orig[cell[1]][cell[2]])
                   <= RoundingSlack(difference[cell[2]], fc.range_min, fc.range_max)

\* C15 as stated: for any range_min and range_max, denormalize gives back the
\* tables handed to normalize.
C15_RoundTripAnyRange ==
    fc.pc = "denormalized" =>
        RoundTrip(fc.train, fc.back_train) /\ RoundTrip(fc.test, fc.back_test)

\* C15 as amended: for range_min # range_max, denormalize gives back the
\* tables handed to normalize.
C15_RoundTrip ==
    (fc.pc = "denormalized" /\ fc.range_min # fc.range_max) =>
        RoundTrip(fc.train, fc.back_train) /\ RoundTrip(fc.test, fc.back_test)

\* a round trip through [0, 1] of two rows and a test row, with a column of
\* three values, whose normalised table is not the original
C15_Witness ==
    /\ fc.pc = "denormalized"
    /\ fc.range_min = 0 /\ fc.range_max = Unit
    /\ Len(fc.train) = 2 /\ Len(fc.test) = 1
    /\ {fc.train[1][1], fc.train[2][1], fc.test[1][1]} = NormVals
    /\ fc.new_train # fc.train
    /\ fc.back_train = fc.train /\ fc.back_test = fc.test

----------------------------------------------------------------------------
(* create_numerical_multiple_dataset on tables with a column of categories *)

\* most rows of each of the two tables handed over
MaxDummyRows == 2

\* The tables explored have a column "v" of numbers and a column "label" of
\* category names, in either order.  The number in a row is the label of
\* the row plus 1.
MixedFrame(cats, first, number_first) ==
    DataFrame([i \in 1..Len(cats) |->
                  IF number_first THEN <<(first + i) * Unit, cats[i]>>
                                  ELSE <<cats[i], (first + i) * Unit>>],
              IF number_first THEN <<"v", "label">> ELSE <<"label", "v">>,
              IF number_first THEN <<"number", "object">> ELSE <<"object", "number">>,
              [i \in 1..Len(cats) |-> first + i - 1])

DummiesCallFrame(train, test) ==
    [pc |-> "create_numerical_multiple_dataset", train |-> train, test |-> test,
     new_train |-> <<>>, new_test |-> <<>>]

\* new_train, new_test = create_numerical_multiple_dataset(train, test)
DummiesCall ==
    /\ fc.pc = "create_numerical_multiple_dataset"
    /\ LET res == create_numerical_multiple_dataset(fc.train, fc.test)
       IN  fc' = [fc EXCEPT !.pc = "created", !.new_train = res[1], !.new_test = res[2]]
    /\ UNCHANGED <<env, sc, comb, gs, rc, pr, hist, ev>>

InitDummies ==
    /\ env \in Envs
    /\ sc = Idle /\ comb = Idle /\ gs = Idle /\ rc = Idle /\ pr = Idle
    /\ hist = <<>> /\ ev = Idle
    /\ \E n \in 0..MaxDummyRows, m \in 0..MaxDummyRows, number_first \in BOOLEAN,
          restart \in BOOLEAN :
           \E ctrain \in [1..n -> Range(CategoryOrder)],
              ctest \in [1..m -> Range(CategoryOrder)] :
               fc = DummiesCallFrame(
                        MixedFrame(ctrain, 0, number_first),
                        MixedFrame(ctest, IF restart THEN 0 ELSE n, number_first))

NextDummies == DummiesCall

SpecDummies == InitDummies /\ [][NextDummies]_vars

\* the position of the column of the given name
ColumnOf(df, name) == KeyIndex(df.columns, name)

\* the category names in the rows of a table handed over
LabelsIn(df) == {df.data[i][ColumnOf(df, "label")] : i \in 1..Len(df.data)}

\* new is old, row by row: the same row labels in the same order, the same
\* number in column "v", and 1 in the column of the row's category
SameRows(old, new) ==
    /\ new.index = old.index
    /\ Len(new.data) = Len(old.data)
    /\ \A i \in 1..Len(old.data) :
           /\ new.data[i][ColumnOf(new, "v")] = old.data[i][ColumnOf(old, "v")]
           /\ \A v \in LabelsIn(fc.train) \cup LabelsIn(fc.test) :
                  new.data[i][ColumnOf(new, v)] =
                      IF old.data[i][ColumnOf(old, "label")] = v THEN Unit ELSE 0

\* C16: the two returned tables have the same list of columns; every
\* category that occurs in train or in test is a column of both, 0 in every
\* row of a table it does not occur in; the returned train has the rows of
\* train and the returned test the rows of test, in their order.
C16_SameColumnsResplit ==
    fc.pc = "created" =>
        /\ fc.new_train.columns = fc.new_test.columns
        /\ \A v \in LabelsIn(fc.train) \cup LabelsIn(fc.test) :
               /\ \E c \in 1..Len(fc.new_train.columns) : fc.new_train.columns[c] = v
               /\ v \notin LabelsIn(fc.train) =>
                      \A i \in 1..Len(fc.new_train.data) :
                          fc.new_train.data[i][ColumnOf(fc.new_train, v)] = 0
               /\ v \notin LabelsIn(fc.test) =>
                      \A i \in 1..Len(fc.new_test.data) :
                          fc.new_test.data[i][ColumnOf(fc.new_test, v)] = 0
        /\ SameRows(fc.train, fc.new_train)
        /\ SameRows(fc.test, fc.new_test)

\* train holds "run" and "walk", test holds "sit" only: three columns of
\* categories after the column of numbers, which came second
C16_Witness ==
    /\ fc.pc = "created"
    /\ LabelsIn(fc.train) = {"run", "walk"}
    /\ LabelsIn(fc.test) = {"sit"}
    /\ fc.train.columns = <<"label", "v">>
    /\ fc.new_train.columns = <<"v", "run", "sit", "walk">>
    /\ fc.new_test.columns = <<"v", "run", "sit", "walk">>
    /\ Len(fc.new_test.data) = 2
    /\ fc.new_test.index = <<0, 1>>

----------------------------------------------------------------------------
(* initialize_echo_state_network on its own *)

\* the largest reservoir, and the largest number of inputs and of outputs
MaxReservoir == 3

\* the states of the random generator explored
DrawSeeds == 0..17

InitializeCallFrame(inputs, outputs, reservoir) ==
    [pc |-> "initialize_echo_state_network", inputs |-> inputs, outputs |-> outputs,
     reservoir |-> reservoir, Win |-> <<>>, W |-> <<>>, Wback |-> <<>>]

\* Win, W, Wback = initialize_echo_state_network(inputs, outputs, reservoir)
InitializeCall ==
    /\ fc.pc = "initialize_echo_state_network"
    /\ \E seed \in DrawSeeds :
           LET net == initialize_echo_state_network(seed, fc.inputs, fc.outputs, fc.reservoir)
           IN  fc' = [fc EXCEPT !.pc = "initialized",
                                !.Win = net.Win, !.W = net.W, !.Wback = net.Wback]
    /\ UNCHANGED <<env, sc, comb, gs, rc, pr, hist, ev>>

InitInitialize ==
    /\ env \in Envs
    /\ sc = Idle /\ comb = Idle /\ gs = Idle /\ rc = Idle /\ pr = Idle
    /\ hist = <<>> /\ ev = Idle
    /\ \E inputs \in 1..MaxReservoir, outputs \in 1..MaxReservoir,
          reservoir \in 1..MaxReservoir :
           fc = InitializeCallFrame(inputs, outputs, reservoir)

NextInitialize == InitializeCall

SpecInitialize == InitInitialize /\ [][NextInitialize]_vars

\* M without row 1 and column j
Minor(M, j) ==
    [i \in 1..(Len(M) - 1) |->
        [k \in 1..(Len(M) - 1) |-> M[i + 1][IF k < j THEN k ELSE k + 1]]]

\* the determinant, expanded along the first row
RECURSIVE Det(_)
Det(M) ==
    IF Len(M) = 0 THEN 1
    ELSE SumSeq([j \in 1..Len(M) |->
                    (IF j % 2 = 1 THEN 1 ELSE -1) * M[1][j] * Det(Minor(M, j))])

\* l is an eigenvalue of M: det(M - l I) = 0
IsEigenvalue(M, l) ==
    Det([i \in 1..Len(M) |-> [j \in 1..Len(M) |-> M[i][j] - (IF i = j THEN l ELSE 0)]]) = 0

\* the shape of a matrix
HasShape(M, rows, columns) ==
    Len(M) = rows /\ \A i \in 1..rows : Len(M[i]) = columns

----------------------------------------------------------------------------
(* Evaluator.evaluator_internal of dynsys/Evaluator.py.  The numbers of this *)
(* part are integers.  The dynamical systems model the evaluator drives is   *)
(* any model: what it predicts in a step is a free choice.                   *)

\* most rows of a dataset handed to the evaluator
MaxEvalRows == 3

\* col[len(self.default_start):], the name without the leading 'self.'
Cleaned(name) ==
    CASE name = "self.a" -> "a"
      [] name = "self.b" -> "b"

\* dataset.columns.get_loc(name)
GetLoc(columns, name) == CHOOSE c \in 1..Len(columns) : columns[c] = name

\* list.index(v)
Index(list, v) == CHOOSE k \in 1..Len(list) : list[k] = v /\ \A j \in 1..(k - 1) : list[j] # v

\* the frame on entry
EvalCallFrame(dataset, columns, state_names, eval_aspects, per_time_step) ==
    [pc |-> "call", dataset |-> dataset, columns |-> columns,
     state_names |-> state_names, eval_aspects |-> eval_aspects,
     cleaned_eval_aspects |-> [k \in 1..Len(eval_aspects) |-> Cleaned(eval_aspects[k])],
     per_time_step |-> per_time_step,
     step |-> 0, y |-> <<>>, pred_values |-> <<>>, fitness |-> <<>>,
     handed |-> <<>>, ret |-> <<>>]

\* self.model.reset() and y = [the values of the evaluation aspects in row
\* 0]: iloc[0] raises on a dataset without rows
EvalStart ==
    /\ ev.pc = "call"
    /\ IF Len(ev.dataset) = 0
       THEN ev' = [ev EXCEPT !.pc = "error"]
       ELSE ev' = [ev EXCEPT
                      !.pc = "loop",
                      !.y = <<[k \in 1..Len(ev.cleaned_eval_aspects) |->
                                  Row(ev.dataset, 0)[GetLoc(ev.columns,
                                                            ev.cleaned_eval_aspects[k])]]>>]
    /\ UNCHANGED <<env, sc, comb, gs, rc, pr, hist, fc>>

\* a variant of the loop over the states that always takes the observed value
StateValues_AlwaysObserved(f) ==
    [i \in 1..Len(f.state_names) |->
        Row(f.dataset, f.step)[GetLoc(f.columns, Cleaned(f.state_names[i]))]]

\* the loop "for col in self.model.state_names" of one step: state_values
StateValues(f) ==
    [i \in 1..Len(f.state_names) |->
        LET col == f.state_names[i]
        IN  IF f.per_time_step \/ f.step = 0
            THEN Row(f.dataset, f.step)[GetLoc(f.columns, Cleaned(col))]
            ELSE IF \E k \in 1..Len(f.eval_aspects) : f.eval_aspects[k] = col
                 THEN f.pred_values[Index(f.eval_aspects, col)]
                 ELSE Row(f.dataset, f.step)[GetLoc(f.columns, Cleaned(col))]]

\* what the model may put out for a state after one step
ModelValues == {1, 3}

\* mean_squared_error([pred_value], [observed])
SquaredError(pred_value, observed) == (pred_value - observed) * (pred_value - observed)

\* The loop "for aspect in self.eval_aspects" of one step: evals.  The
\* observed value is read in the column of col, which the loop over the
\* states left at the last state name.
Evals(f, pred_values) ==
    LET col == f.state_names[Len(f.state_names)]
    IN  [k \in 1..Len(f.eval_aspects) |->
            SquaredError(pred_values[k],
                         Row(f.dataset, f.step + 1)[GetLoc(f.columns, Cleaned(col))])]

\* One pass of "for step in range(0, len(dataset.index) - 1)": hand the state
\* values to the model, let it make a step, read what it put out for the
\* evaluation aspects, fitness = emo.Pareto(evals), y.append(pred_values).
\* handed records the state values of every pass.
EvalStep ==
    /\ ev.pc = "loop"
    /\ ev.step < Len(ev.dataset) - 1
    /\ \E pred_values \in [1..Len(ev.eval_aspects) -> ModelValues] :
           ev' = [ev EXCEPT !.handed = Append(@, StateValues(ev)),
                            !.pred_values = pred_values,
                            !.fitness = Some(Evals(ev, pred_values)),
                            !.y = Append(@, pred_values),
                            !.step = @ + 1]
    /\ UNCHANGED <<env, sc, comb, gs, rc, pr, hist, fc>>

\* After the loop: return fitness, y_frame.  fitness has no value when the
\* loop made no pass.
EvalReturn ==
    /\ ev.pc = "loop"
    /\ ev.step >= Len(ev.dataset) - 1
    /\ IF ev.fitness = None
       THEN ev' = [ev EXCEPT !.pc = "error"]
       ELSE ev' = [ev EXCEPT !.pc = "returned", !.ret = <<ev.fitness[1], ev.y>>]
    /\ UNCHANGED <<env, sc, comb, gs, rc, pr, hist, fc>>

\* the observed values explored, the lists of states and of evaluation aspects
EvalVals == {0, 1}
StateLists == {<<"self.a", "self.b">>, <<"self.b", "self.a">>}
AspectLists == {<<"self.a">>, <<"self.b">>, <<"self.a", "self.b">>}

InitEval ==
    /\ env \in Envs
    /\ sc = Idle /\ comb = Idle /\ gs = Idle /\ rc = Idle /\ pr = Idle
    /\ hist = <<>> /\ fc = Idle
    /\ \E n \in 0..MaxEvalRows, state_names \in StateLists,
          eval_aspects \in AspectLists, per_time_step \in BOOLEAN :
           \E dataset \in Tables(n, 2, EvalVals) :
               ev = EvalCallFrame(dataset, <<"a", "b">>, state_names, eval_aspects,
                                  per_time_step)

NextEval == EvalStart \/ EvalStep \/ EvalReturn

SpecEval == InitEval /\ [][NextEval]_vars

\* the observed value of the named state or aspect in row t (from 0)
Observed(f, t, name) == Row(f.dataset, t)[GetLoc(f.columns, Cleaned(name))]

\* the sum over the predicted steps 0 .. last of the squared error between
\* what was predicted for aspect k and what was observed for it one row on
RECURSIVE SquaredErrorSum(_, _, _)
SquaredErrorSum(f, k, last) ==
    IF last < 0 THEN 0
    ELSE SquaredError(f.y[last + 2][k], Observed(f, last + 1, f.eval_aspects[k]))
         + SquaredErrorSum(f, k, last - 1)

\* C18: the returned fitness of an aspect is the mean, over all predicted
\* steps, of the squared error between the value predicted for the aspect
\* and the value observed for that aspect at the next time point.
C18_FitnessIsMeanSquaredError ==
    ev.pc = "returned" =>
        \A k \in 1..Len(ev.eval_aspects) :
            ev.ret[1][k] * ev.step = SquaredErrorSum(ev, k, ev.step - 1)

\* C19: with per_time_step=True every state is handed its observed value
\* of the row of the step; with per_time_step=False so is every state at
\* step 0, and at a later step an evaluation aspect is handed what the model
\* predicted for it in the step before and every other state its observed
\* value.
C19_StateValuesHanded ==
    \A s \in 1..Len(ev.handed) : \A i \in 1..Len(ev.state_names) :
        LET name == ev.state_names[i]
            IsAspect == \E k \in 1..Len(ev.eval_aspects) : ev.eval_aspects[k] = name
        IN  ev.handed[s][i] =
                IF ev.per_time_step \/ s = 1 \/ ~IsAspect
                THEN Observed(ev, s - 1, name)
                ELSE ev.y[s][Index(ev.eval_aspects, name)]

\* a free run over three rows returned: in its second step the model was
\* handed its own prediction for the aspect "self.a", which is not what was
\* observed, and the observed value of "self.b"
C19_Witness ==
    /\ ev.pc = "returned"
    /\ ~ev.per_time_step
    /\ ev.state_names = <<"self.b", "self.a">>
    /\ ev.eval_aspects = <<"self.a">>
    /\ Len(ev.handed) = 2
    /\ ev.handed[2][2] = ev.y[2][1]
    /\ ev.handed[2][2] # Observed(ev, 1, "self.a")
    /\ ev.handed[2][1] = Observed(ev, 1, "self.b")

----------------------------------------------------------------------------
(* reservoir_computing with gridsearch=True *)

\* the rows of the training tables explored beyond 15, the fewest rows for
\* which the default split leaves 10 rows to train on and rows to validate
MaxSearchExtra == 1

\* the frame of a call with gridsearch=True and the default reservoir_size
\* and a (100 and 0.8)
RcSearchCallFrame(train_X, train_y, test_X, test_y, per_time_step, gridsearch_training_frac, error) ==
    [RcCallFrame(train_X, train_y, test_X, test_y, 100, 16, per_time_step)
        EXCEPT !.gridsearch = TRUE]
    @@ [gridsearch_training_frac |-> gridsearch_training_frac, error |-> error]

\* "if gridsearch:" the call of gridsearch_reservoir_computing
RcGridsearch ==
    /\ rc.pc = "call" /\ rc.gridsearch
    /\ gs.pc = "idle"
    /\ rc' = [rc EXCEPT !.pc = "gridsearch"]
    /\ gs' = GridCallFrame("reservoir_computing", rc.train_X, rc.train_y,
                           rc.per_time_step, rc.error, rc.gridsearch_training_frac)
    /\ UNCHANGED <<env, sc, comb, pr, hist, fc, ev>>

\* the search returned: "reservoir_size, a = ..", and on to the training
RcSearchReturned ==
    /\ rc.pc = "gridsearch"
    /\ gs.pc = "returned"
    /\ rc' = [rc EXCEPT !.pc = "searched", !.reservoir_size = gs.ret[1], !.a = gs.ret[2]]
    /\ UNCHANGED <<env, sc, comb, gs, pr, hist, fc, ev>>

\* the search raised: the exception leaves reservoir_computing as well
RcSearchRaised ==
    /\ rc.pc = "gridsearch"
    /\ gs.pc = "error"
    /\ rc' = [rc EXCEPT !.pc = "error"]
    /\ UNCHANGED <<env, sc, comb, gs, pr, hist, fc, ev>>

InitSearch ==
    /\ env \in Envs
    /\ sc = Idle /\ comb = Idle /\ gs = Idle /\ pr = Idle /\ hist = <<>>
    /\ fc = Idle /\ ev = Idle
    /\ \E n \in 15..(15 + MaxSearchExtra), m \in 0..1, error \in {"mse", "accuracy"},
          per_time_step \in BOOLEAN :
           rc = RcSearchCallFrame(Wave(n, 2, 0, 2 * Unit), Wave(n, 3, 0, Unit),
                                  Wave(m, 2, 2 * Unit, Unit), Wave(m, 3, Unit, 0),
                                  per_time_step, <<7, 10>>, error)

\* the search and the hand-over of what it returned; the training that
\* follows is that of a call with gridsearch=False
NextSearch ==
    \/ RcGridsearch \/ GridStart \/ GridStepReservoir \/ GridReturn
    \/ RcSearchReturned \/ RcSearchRaised

SpecSearch == InitSearch /\ [][NextSearch]_vars

\* C20: a call with gridsearch=True gets through its search: once the search
\* is over, every combination of the grid was trained once and scored once,
\* in the order of the enumeration, by a nested call with gridsearch=False,
\* and the call goes on to train one model on the full training table with
\* the reservoir_size and a of the best combination.
C20_SearchThenFinalModel ==
    (rc.pc \in {"searched", "error"}) =>
        LET grid == generate_parameter_combinations(TunedParameters("reservoir_computing"),
                                                    TunedKeys("reservoir_computing"))[1]
        IN  /\ gs.trained = Len(grid)
            /\ Len(gs.scores) = Len(grid)
            /\ Len(gs.calls) = Len(grid)
            /\ \A i \in 1..Len(grid) :
                   /\ ~gs.calls[i].gridsearch
                   /\ gs.calls[i].a = grid[i][1]
                   /\ gs.calls[i].reservoir_size = grid[i][2]
            /\ rc.pc = "searched"
            /\ LET b == FirstBest(rc.error, gs.scores)
               IN  rc.a = grid[b][1] /\ rc.reservoir_size = grid[b][2]

----------------------------------------------------------------------------
(* reservoir_computing on training tables of at most washout_period rows *)

\* the readout fitted on a design matrix without rows: pinv(X) has no
\* columns, so its product with Yt is the zero matrix
ZeroReadout(f) == [k \in 1..f.outputs |-> Zeros(1 + f.inputs + f.reservoir_size)]

\* the four returned tables have one row per row of the training and of the
\* test table, and the two probability tables one entry per target column
ReturnedShape(f) ==
    /\ Len(f.ret) = 4
    /\ Len(f.ret[1]) = Len(f.train_X) /\ Len(f.ret[3]) = Len(f.train_X)
    /\ Len(f.ret[2]) = Len(f.test_X) /\ Len(f.ret[4]) = Len(f.test_X)
    /\ \A r \in 1..Len(f.ret[3]) : Len(f.ret[3][r]) = f.outputs
    /\ \A r \in 1..Len(f.ret[4]) : Len(f.ret[4][r]) = f.outputs

\* a call on fewer training rows than the washout period ends in an error
\* with no training step made, no readout, no prediction and nothing returned
FailsBeforeTraining(f) ==
    /\ f.pc \in {"call", "error"}
    /\ f.xs = <<>> /\ f.X = <<>> /\ f.Wout = <<>> /\ f.ret = <<>>
    /\ hist = <<>> /\ pr = Idle

\* C21 as first stated: reservoir_computing on fewer training rows than the
\* washout period (10) ends in an error before any training step and returns
\* no predictions; on exactly 10 rows it trains on an empty design matrix and
\* still returns prediction tables of the correct shape.  Read in favour of
\* the statement, a call on a test table without rows that pandas rejects
\* is left out.
C21_TenRowsAlwaysReturn ==
    /\ Len(rc.train_X) < washout_period => FailsBeforeTraining(rc)
    /\ (/\ Len(rc.train_X) = washout_period
        /\ rc.pc # "call"
        /\ rc.test_X # <<>> \/ ~env.empty_idxmax_raises)
           => /\ rc.X = <<>>
              /\ rc.pc # "error"
              /\ rc.pc = "returned" => ReturnedShape(rc)

\* C21, amended: reservoir_computing on fewer training rows than the washout
\* period (10) ends in an error before any training step and returns no
\* predictions.  On exactly 10 rows it makes all 10 training steps, stores
\* none of them, and fits on a design matrix and a target matrix without
\* rows.  Where linalg.pinv rejects the empty matrix the call ends there in an
\* error, without readout, prediction or result.  Where it does not, the
\* readout is the zero matrix, and the call returns tables of the shape of
\* the training and the test table unless a prediction raises, which only
\* the one on a test table without rows does, where idxmax rejects it.
C21_WashoutBoundary ==
    /\ Len(rc.train_X) < washout_period => FailsBeforeTraining(rc)
    /\ (Len(rc.train_X) = washout_period /\ rc.pc # "call") =>
           /\ rc.X = <<>> /\ rc.Yt = <<>>
           /\ rc.pc # "train" => Len(rc.xs) = washout_period
           /\ rc.pc \in {"predict_train", "predict_test", "returned"} =>
                  /\ ~env.empty_pinv_raises
                  /\ rc.Wout = ZeroReadout(rc)
           /\ rc.pc = "returned" => ReturnedShape(rc)
           /\ rc.pc = "error" =>
                  /\ rc.ret = <<>>
                  /\ IF env.empty_pinv_raises
                     THEN rc.Wout = <<>> /\ hist = <<>>
                     ELSE /\ env.empty_idxmax_raises /\ rc.test_X = <<>>
                          /\ Len(hist) = 2 /\ hist[1].pc = "returned"

\* a call on 10 training rows and 2 test rows returned: 10 training steps,
\* no design row, the zero readout, tables of 10 and of 2 rows
C21_Witness ==
    /\ rc.pc = "returned"
    /\ Len(rc.train_X) = washout_period
    /\ Len(rc.xs) = washout_period
    /\ rc.xs[washout_period] # Zeros(rc.reservoir_size)
    /\ rc.X = <<>>
    /\ rc.Wout = ZeroReadout(rc)
    /\ Len(rc.ret[3]) = washout_period
    /\ Len(rc.ret[4]) = 2

====
